---- MODULE Spec2Model ----
(***************************************************************************)
(* A model of package cznicb (index/store/cznicb/cznicb.go): an in-memory  *)
(* KVStore over an ordered map guarded by one mutex, with iterators that   *)
(* lock per step and batches that buffer under their own mutex and commit  *)
(* under the store's mutex.                                                *)
(*                                                                         *)
(* Every exported method is a short sequence of steps of the calling       *)
(* thread: one step per lock acquisition, per access to the ordered map    *)
(* and per lock release, so that interleavings of concurrent callers are   *)
(* those the mutexes allow.                                                *)
(***************************************************************************)
EXTENDS Integers, Sequences, FiniteSets, TLC

VARIABLES
    t,      \* Store.t: the ordered map, a function from the keys it holds
    sm,     \* Store.m: 0 when free, else the thread holding it
    bm,     \* Batch.m per batch: 0 when free, else the thread holding it
    ks,     \* Batch.ks per batch
    vs,     \* Batch.vs per batch
    ms,     \* Batch.ms per batch
    ex,     \* per thread: the locals of its Batch.Execute
    it,     \* the Iterator object (owned by one caller)
    pc,     \* per thread: position inside the method it is running
    cur,    \* per thread: the call it is running
    loc,    \* per thread: locals of the running method
    fuel,   \* calls the clients may still start
    hist,   \* history: per thread, the store writes it has issued, in order;
            \* per batch (at index -b), all the plain entries ever appended
    blog,   \* history: per batch, the plain entries callers have appended
            \* since the batch was last drained or closed (key, value, number)
    obs     \* history: what the iterator has reported since its last seek

vars == <<t, sm, bm, ks, vs, ms, ex, it, pc, cur, loc, fuel, hist, blog, obs>>

----------------------------------------------------------------------------
(* Data *)

\* Keys are byte strings; the three below exercise the prefix rule of
\* bytes.Compare (<<1>> < <<1, 2>> < <<2>>).
Keys == {<<1>>, <<1, 2>>, <<2>>}

\* Non-nil []byte values.
Values == {"a", "b"}

\* A nil []byte (the tombstone), also when boxed in an interface{}.
NilBytes == "nil"

\* The nil interface{} value (no dynamic type), for values and for keys.
NilIface == "<nil>"
NoKey == <<>>

\* error values
NoErr == "nil"
EOF == "io.EOF"
iteratorDoneErr == "iteratorDoneErr"

Threads == {1, 2}
Batches == {1, 2}

Slices == Values \cup {NilBytes}

RECURSIVE itemCompare(_, _)
itemCompare(a, b) ==
    IF a = <<>> /\ b = <<>> THEN 0
    ELSE IF a = <<>> THEN -1
    ELSE IF b = <<>> THEN 1
    ELSE IF Head(a) < Head(b) THEN -1
    ELSE IF Head(a) > Head(b) THEN 1
    ELSE itemCompare(Tail(a), Tail(b))

----------------------------------------------------------------------------
(* The ordered map (github.com/cznic/b), by its contract: unique keys in   *)
(* itemCompare order, insert-or-replace, delete, lookup, enumerators.      *)

EmptyTree == [k \in {} |-> NilBytes]

TreeSet(tr, k, v) == [x \in (DOMAIN tr) \cup {k} |-> IF x = k THEN v ELSE tr[x]]

TreeDelete(tr, k) == [x \in (DOMAIN tr) \ {k} |-> tr[x]]

TreeGet(tr, k) ==
    IF k \in DOMAIN tr THEN [v |-> tr[k], ok |-> TRUE]
    ELSE [v |-> NilIface, ok |-> FALSE]

\* The smallest key of tr that is >= k (incl) or > k (~incl); NoKey if none.
FirstKey(tr, k, incl) ==
    LET c == {x \in DOMAIN tr :
                  IF incl THEN itemCompare(x, k) >= 0 ELSE itemCompare(x, k) > 0}
    IN  IF c = {} THEN NoKey
        ELSE CHOOSE x \in c : \A y \in c : itemCompare(x, y) <= 0

\* An Enumerator is a cut in the key order: at k (hit) or just after k, plus
\* its latched end-of-enumeration error and whether the tree's key set has
\* changed since the enumerator last looked at it (its ver differs from the
\* tree's).  A nil *Enumerator has isnil set.
NilEnum == [isnil |-> TRUE, k |-> NoKey, hit |-> FALSE, err |-> FALSE, stale |-> FALSE]

TreeSeek(tr, k) ==
    [isnil |-> FALSE, k |-> k, hit |-> k \in DOMAIN tr, err |-> FALSE, stale |-> FALSE]

TreeSeekFirst(tr) ==
    IF DOMAIN tr = {} THEN [e |-> NilEnum, err |-> EOF]
    ELSE [e |-> [isnil |-> FALSE, k |-> FirstKey(tr, NoKey, TRUE), hit |-> TRUE,
                 err |-> FALSE, stale |-> FALSE],
          err |-> NoErr]

\* Enumerator.Next: the item at the cut, then the cut moves past it.  An
\* enumerator whose tree has changed seeks its key again and steps over it if
\* it had already handed it out; when that step runs off the end it reports
\* io.EOF without latching it.  Otherwise running off the end latches io.EOF,
\* also right after handing out the last item.
EnumNext(e, tr) ==
    LET x == FirstKey(tr, e.k, e.hit)
        eof == [k |-> NoKey, v |-> NilIface, err |-> EOF]
    IN  IF e.err THEN eof @@ [e |-> e]
        ELSE IF e.stale /\ ~e.hit /\ e.k \in DOMAIN tr /\ x = NoKey
        THEN eof @@ [e |-> e]
        ELSE IF x = NoKey
        THEN eof @@ [e |-> [e EXCEPT !.err = TRUE, !.stale = FALSE,
                                     !.hit = e.k \in DOMAIN tr]]
        ELSE [k |-> x, v |-> tr[x], err |-> NoErr,
              e |-> [isnil |-> FALSE, k |-> x, hit |-> FALSE,
                     err |-> FirstKey(tr, x, FALSE) = NoKey, stale |-> FALSE]]

\* What a change of the tree does to a live enumerator: inserting a new key
\* or removing one bumps the tree's version, replacing a value does not.
Touch(e, old, new) ==
    IF e.isnil THEN e ELSE [e EXCEPT !.stale = @ \/ (DOMAIN new # DOMAIN old)]

----------------------------------------------------------------------------
(* Thread bookkeeping *)

NoCall == [op |-> "none", k |-> NoKey, v |-> NilBytes, b |-> 0]
NoLoc == [v |-> NilIface, ok |-> FALSE, err |-> NoErr]

Call(op, k, v, b) == [op |-> op, k |-> k, v |-> v, b |-> b]

\* Batch.ms: a map from keys to merge chains, or the nil map.  For the
\* history, dropped notes that a Close threw buffered entries away.
EmptyMap == [isnil |-> FALSE, m |-> [k \in {} |-> <<>>], dropped |-> FALSE]
NilMap == [isnil |-> TRUE, m |-> [k \in {} |-> <<>>], dropped |-> FALSE]

\* The locals of Batch.Execute: the drained ks, vs and ms, the keys the range
\* over ms has yet to visit (rem) and the one it visited last (key), the
\* index of the range over ks (i), the error to return; for the history, the
\* map as Execute found it (pre), the entries callers had appended (log) and
\* whether a Close had thrown entries away before (dropped).
NoExec == [b |-> 0, ks |-> <<>>, vs |-> <<>>, ms |-> EmptyMap.m, rem |-> {},
           key |-> NoKey, i |-> 1, err |-> NoErr, pre |-> EmptyTree, log |-> <<>>,
           dropped |-> FALSE]

Idle(th) == pc[th] = "idle"

\* A client starts a call: it must be between calls and have budget left.
Start(th, call) ==
    /\ pc[th] = "idle"
    /\ fuel > 0
    /\ fuel' = fuel - 1
    /\ cur' = [cur EXCEPT ![th] = call]

Goto(th, label) == pc' = [pc EXCEPT ![th] = label]

\* The call returns: the thread is between calls again, its locals are gone.
Return(th) ==
    /\ pc' = [pc EXCEPT ![th] = "idle"]
    /\ cur' = [cur EXCEPT ![th] = NoCall]
    /\ loc' = [loc EXCEPT ![th] = NoLoc]
    /\ ex' = [ex EXCEPT ![th] = NoExec]

\* sync.Mutex Lock/Unlock on Store.m
Lock(th) == sm = 0 /\ sm' = th
Unlock(th) == sm' = 0

\* A change of the tree: the live enumerator notices a changed version, and
\* the history notes that the map was written since the iterator's last seek,
\* and the keys that have come and gone since.
WriteTree(new) ==
    /\ t' = new
    /\ it' = [it EXCEPT !.e = Touch(@, t, new)]
    /\ obs' = IF ~it.exists THEN obs
              ELSE [obs EXCEPT
                        !.dirty = TRUE,
                        !.added = (@ \cup (DOMAIN new \ DOMAIN t)) \cap DOMAIN new,
                        !.gone = (@ \cup (DOMAIN t \ DOMAIN new)) \ DOMAIN new]

\* History: the writes of the threads whose writes are recorded.
Log(th, k, v) ==
    hist' = IF th \in DOMAIN hist THEN [hist EXCEPT ![th] = Append(@, <<k, v>>)]
            ELSE hist

\* History: the plain entries appended to the batches whose entries are
\* recorded, each numbered by its place among all the entries of its batch.
EntryId(b) == IF -b \in DOMAIN hist THEN Len(hist[-b]) + 1 ELSE 0

LogEntry(b, k, v) ==
    hist' = IF -b \in DOMAIN hist THEN [hist EXCEPT ![-b] = Append(@, <<k, v>>)]
            ELSE hist

bufVars == <<bm, ks, vs, ms, blog>>
batchVars == <<bufVars, ex>>

----------------------------------------------------------------------------
(* Store.Get, lines 80-88 *)

StoreGetResult(r) == IF ~r.ok \/ r.v = NilIface THEN NilBytes ELSE r.v

GetLock(th, k) ==
    /\ Start(th, Call("Get", k, NilBytes, 0))
    /\ Lock(th)
    /\ Goto(th, "GetRead")
    /\ UNCHANGED <<t, batchVars, it, loc, hist, obs>>

GetRead(th) ==
    /\ pc[th] = "GetRead"
    /\ loc' = [loc EXCEPT ![th] = TreeGet(t, cur[th].k) @@ [err |-> NoErr]]
    /\ Goto(th, "GetUnlock")
    /\ UNCHANGED <<t, sm, batchVars, it, cur, fuel, hist, obs>>

GetUnlock(th) ==
    /\ pc[th] = "GetUnlock"
    /\ Unlock(th)
    /\ Return(th)
    /\ UNCHANGED <<t, bufVars, it, fuel, hist, obs>>

(* Store.Set, lines 96-101 *)

SetLock(th, k, v) ==
    /\ Start(th, Call("Set", k, v, 0))
    /\ Lock(th)
    /\ Goto(th, "SetWrite")
    /\ Log(th, k, v)
    /\ UNCHANGED <<t, batchVars, it, loc, obs>>

\* A Set that inserts but never replaces.
SetWrite_InsertOnly(th) ==
    /\ pc[th] = "SetWrite"
    /\ WriteTree(IF cur[th].k \in DOMAIN t THEN t ELSE TreeSet(t, cur[th].k, cur[th].v))
    /\ Goto(th, "SetUnlock")
    /\ UNCHANGED <<sm, batchVars, cur, loc, fuel, hist>>

SetWrite(th) ==
    /\ pc[th] = "SetWrite"
    /\ WriteTree(TreeSet(t, cur[th].k, cur[th].v))
    /\ Goto(th, "SetUnlock")
    /\ UNCHANGED <<sm, batchVars, cur, loc, fuel, hist>>

SetUnlock(th) ==
    /\ pc[th] = "SetUnlock"
    /\ Unlock(th)
    /\ Return(th)
    /\ UNCHANGED <<t, bufVars, it, fuel, hist, obs>>

(* Store.Delete, lines 103-108 *)

DeleteLock(th, k) ==
    /\ Start(th, Call("Delete", k, NilBytes, 0))
    /\ Lock(th)
    /\ Goto(th, "DeleteWrite")
    /\ Log(th, k, NilBytes)
    /\ UNCHANGED <<t, batchVars, it, loc, obs>>

\* A Delete that leaves the key in place.
DeleteWrite_Skip(th) ==
    /\ pc[th] = "DeleteWrite"
    /\ WriteTree(t)
    /\ Goto(th, "DeleteUnlock")
    /\ UNCHANGED <<sm, batchVars, cur, loc, fuel, hist>>

DeleteWrite(th) ==
    /\ pc[th] = "DeleteWrite"
    /\ WriteTree(TreeDelete(t, cur[th].k))
    /\ Goto(th, "DeleteUnlock")
    /\ UNCHANGED <<sm, batchVars, cur, loc, fuel, hist>>

DeleteUnlock(th) ==
    /\ pc[th] = "DeleteUnlock"
    /\ Unlock(th)
    /\ Return(th)
    /\ UNCHANGED <<t, bufVars, it, fuel, hist, obs>>

----------------------------------------------------------------------------
(* Iterator, lines 114-186.  Iterators are used single-threaded (line 50). *)

NoIter == [exists |-> FALSE, e |-> NilEnum, currK |-> NoKey, currV |-> NilIface,
           currErr |-> NoErr]

NoObs == [how |-> "none", key |-> NoKey, moved |-> FALSE, seq |-> <<>>,
          dirty |-> FALSE, added |-> {}, gone |-> {}, exh |-> FALSE,
          wasExh |-> FALSE, late |-> FALSE]

\* Iterator.Current, lines 157-165
Current(w) ==
    IF w.currErr = iteratorDoneErr \/ w.currK = NoKey \/ w.currV = NilIface
    THEN [k |-> NoKey, v |-> NilBytes, ok |-> FALSE]
    ELSE [k |-> w.currK, v |-> w.currV, ok |-> TRUE]

\* Iterator.Key, lines 167-173
Key(w) == IF ~Current(w).ok THEN NoKey ELSE Current(w).k

\* Iterator.Value, lines 175-181
Value(w) == IF ~Current(w).ok THEN NilBytes ELSE Current(w).v

\* Iterator.Valid, lines 183-186
Valid(w) == Current(w).ok

\* lines 115-117 and 133-135: a seek first forgets the current entry
Reset(w) == [w EXCEPT !.currK = NoKey, !.currV = NilIface, !.currErr = NoErr]

\* History: a seek starts a new run of reported entries.
NewRun(how, k, wasExh) ==
    obs' = [how |-> how, key |-> k, moved |-> FALSE, seq |-> <<>>,
            dirty |-> FALSE, added |-> {}, gone |-> {}, exh |-> FALSE,
            wasExh |-> wasExh, late |-> FALSE]

\* History: the map holds a key greater than the last one reported.
KeyBeyond(seq, tr) ==
    /\ seq # <<>>
    /\ \E k \in DOMAIN tr : itemCompare(k, seq[Len(seq)][1]) > 0

\* Store.Iterator, lines 90-94, up to the lock taken by its Seek (line 137)
IteratorLock(th, k) ==
    /\ Start(th, Call("Iterator", k, NilBytes, 0))
    /\ it' = Reset([NoIter EXCEPT !.exists = TRUE])
    /\ NewRun("Seek", k, FALSE)
    /\ Lock(th)
    /\ Goto(th, "SeekTree")
    /\ UNCHANGED <<t, batchVars, loc, hist>>

\* A Seek that keeps the terminal error of the previous run.
SeekLock_KeepErr(th, k) ==
    /\ it.exists
    /\ Start(th, Call("Seek", k, NilBytes, 0))
    /\ it' = [it EXCEPT !.currK = NoKey, !.currV = NilIface]
    /\ NewRun("Seek", k, obs.exh)
    /\ Lock(th)
    /\ Goto(th, "SeekTree")
    /\ UNCHANGED <<t, batchVars, loc, hist>>

\* Iterator.Seek, lines 132-137
SeekLock(th, k) ==
    /\ it.exists
    /\ Start(th, Call("Seek", k, NilBytes, 0))
    /\ it' = Reset(it)
    /\ NewRun("Seek", k, obs.exh)
    /\ Lock(th)
    /\ Goto(th, "SeekTree")
    /\ UNCHANGED <<t, batchVars, loc, hist>>

\* line 138
SeekTree(th) ==
    /\ pc[th] = "SeekTree"
    /\ it' = [it EXCEPT !.e = TreeSeek(t, cur[th].k)]
    /\ Goto(th, "SeekUnlock")
    /\ UNCHANGED <<t, sm, batchVars, cur, loc, fuel, hist, obs>>

\* lines 139-141
SeekUnlock(th) ==
    /\ pc[th] = "SeekUnlock"
    /\ Unlock(th)
    /\ Goto(th, "Next")
    /\ UNCHANGED <<t, batchVars, it, cur, loc, fuel, hist, obs>>

\* Iterator.SeekFirst, lines 114-120
SeekFirstLock(th) ==
    /\ it.exists
    /\ Start(th, Call("SeekFirst", NoKey, NilBytes, 0))
    /\ it' = Reset(it)
    /\ NewRun("SeekFirst", NoKey, obs.exh)
    /\ Lock(th)
    /\ Goto(th, "SeekFirstTree")
    /\ UNCHANGED <<t, batchVars, loc, hist>>

\* line 121
SeekFirstTree(th) ==
    /\ pc[th] = "SeekFirstTree"
    /\ it' = [it EXCEPT !.e = TreeSeekFirst(t).e]
    /\ loc' = [loc EXCEPT ![th] = [NoLoc EXCEPT !.err = TreeSeekFirst(t).err]]
    /\ Goto(th, "SeekFirstUnlock")
    /\ UNCHANGED <<t, sm, batchVars, cur, fuel, hist, obs>>

\* A SeekFirst that does not load the first entry (no Next at line 129).
SeekFirstUnlock_NoNext(th) ==
    /\ pc[th] = "SeekFirstUnlock"
    /\ Unlock(th)
    /\ IF loc[th].err # NoErr
       THEN /\ it' = [it EXCEPT !.currK = NoKey, !.currV = NilIface,
                                !.currErr = iteratorDoneErr]
            /\ obs' = [obs EXCEPT !.exh = TRUE]
       ELSE UNCHANGED <<it, obs>>
    /\ Return(th)
    /\ UNCHANGED <<t, bufVars, fuel, hist>>

\* lines 122-129
SeekFirstUnlock(th) ==
    /\ pc[th] = "SeekFirstUnlock"
    /\ Unlock(th)
    /\ IF loc[th].err # NoErr
       THEN /\ it' = [it EXCEPT !.currK = NoKey, !.currV = NilIface,
                                !.currErr = iteratorDoneErr]
            /\ obs' = [obs EXCEPT !.exh = TRUE]
       ELSE UNCHANGED <<it, obs>>
    /\ Goto(th, "Next")
    /\ UNCHANGED <<t, batchVars, cur, loc, fuel, hist>>

\* Iterator.Next called by the client
NextCall(th) ==
    /\ it.exists
    /\ Start(th, Call("Next", NoKey, NilBytes, 0))
    /\ obs' = [obs EXCEPT !.moved = TRUE]
    /\ Goto(th, "Next")
    /\ UNCHANGED <<t, sm, batchVars, it, loc, hist>>

\* Iterator.Next, lines 145-150: the terminal state is kept
NextDone(th) ==
    /\ pc[th] = "Next"
    /\ it.currErr # NoErr
    /\ it' = [it EXCEPT !.currK = NoKey, !.currV = NilIface,
                        !.currErr = iteratorDoneErr]
    /\ obs' = [obs EXCEPT !.late = @ \/ KeyBeyond(obs.seq, t)]
    /\ Return(th)
    /\ UNCHANGED <<t, sm, bufVars, fuel, hist>>

\* The early return of Next left out: Next asks the enumerator again.
NextLock_NoGuard(th) ==
    /\ pc[th] = "Next"
    /\ Lock(th)
    /\ Goto(th, "NextTree")
    /\ UNCHANGED <<t, batchVars, it, cur, loc, fuel, hist, obs>>

\* line 152
NextLock(th) ==
    /\ pc[th] = "Next"
    /\ it.currErr = NoErr
    /\ Lock(th)
    /\ Goto(th, "NextTree")
    /\ UNCHANGED <<t, batchVars, it, cur, loc, fuel, hist, obs>>

\* line 153; calling Next on a nil *Enumerator panics
NextTree(th) ==
    /\ pc[th] = "NextTree"
    /\ IF it.e.isnil
       THEN /\ Goto(th, "panic")
            /\ UNCHANGED <<it, obs>>
       ELSE LET r == EnumNext(it.e, t)
            IN  /\ it' = [it EXCEPT !.e = r.e, !.currK = r.k, !.currV = r.v,
                                    !.currErr = r.err]
                /\ obs' = [obs EXCEPT !.exh = @ \/ r.err # NoErr]
                /\ Goto(th, "NextUnlock")
    /\ UNCHANGED <<t, sm, batchVars, cur, loc, fuel, hist>>

\* A Next that returns with the store's lock held.
NextUnlock_KeepLock(th) ==
    /\ pc[th] = "NextUnlock"
    /\ obs' = IF Valid(it)
              THEN [obs EXCEPT !.seq = Append(@, <<Key(it), Value(it)>>)]
              ELSE obs
    /\ Return(th)
    /\ UNCHANGED <<t, sm, bufVars, it, fuel, hist>>

\* line 154; the history records the entry the iterator now reports
NextUnlock(th) ==
    /\ pc[th] = "NextUnlock"
    /\ Unlock(th)
    /\ obs' = IF Valid(it)
              THEN [obs EXCEPT !.seq = Append(@, <<Key(it), Value(it)>>)]
              ELSE obs
    /\ Return(th)
    /\ UNCHANGED <<t, bufVars, it, fuel, hist>>

----------------------------------------------------------------------------
(* Merge operators.  store.AssociativeMerge is supplied by the caller; the *)
(* model offers three: one whose result depends on the existing value, one *)
(* that yields a tombstone, one that fails when the key has no value.      *)

MergeOps == {"app", "del", "need"}

MergeErr(k) == IF Len(k) = 1 THEN IF k[1] = 1 THEN "no value for 1" ELSE "no value for 2"
               ELSE "no value"

MergeOp(op, k, b) ==
    CASE op = "app"  -> [v |-> IF b = "a" THEN "b" ELSE "a", err |-> NoErr]
      [] op = "del"  -> [v |-> NilBytes, err |-> NoErr]
      [] op = "need" -> IF b = NilBytes THEN [v |-> NilBytes, err |-> MergeErr(k)]
                        ELSE [v |-> b, err |-> NoErr]

\* store.AssociativeMergeChain.Merge: the operators in registration order,
\* each on the result of the one before; the first failure ends the fold.
RECURSIVE MergeChain(_, _, _)
MergeChain(mc, k, b) ==
    IF mc = <<>> THEN [v |-> b, err |-> NoErr]
    ELSE LET r == MergeOp(Head(mc), k, b)
         IN  IF r.err # NoErr THEN [v |-> NilBytes, err |-> r.err]
             ELSE MergeChain(Tail(mc), k, r.v)

----------------------------------------------------------------------------
(* Batch, lines 196-268 *)

BLock(th, b) == bm[b] = 0 /\ bm' = [bm EXCEPT ![b] = th]
BUnlock(b) == bm' = [bm EXCEPT ![b] = 0]

iterVars == <<it, obs>>

(* Batch.Set, lines 196-201 *)

BSetLock(th, b, k, v) ==
    /\ Start(th, Call("Batch.Set", k, v, b))
    /\ BLock(th, b)
    /\ blog' = [blog EXCEPT ![b] = Append(@, <<k, v, EntryId(b)>>)]
    /\ LogEntry(b, k, v)
    /\ Goto(th, "BSetKs")
    /\ UNCHANGED <<t, sm, ks, vs, ms, ex, iterVars, loc>>

BSetKs(th) ==
    /\ pc[th] = "BSetKs"
    /\ ks' = [ks EXCEPT ![cur[th].b] = Append(@, cur[th].k)]
    /\ Goto(th, "BSetVs")
    /\ UNCHANGED <<t, sm, bm, vs, ms, ex, blog, iterVars, cur, loc, fuel, hist>>

BSetVs(th) ==
    /\ pc[th] = "BSetVs"
    /\ vs' = [vs EXCEPT ![cur[th].b] = Append(@, cur[th].v)]
    /\ BUnlock(cur[th].b)
    /\ Return(th)
    /\ UNCHANGED <<t, sm, ks, ms, blog, iterVars, fuel, hist>>

(* Batch.Delete, lines 203-208 *)

BDeleteLock(th, b, k) ==
    /\ Start(th, Call("Batch.Delete", k, NilBytes, b))
    /\ BLock(th, b)
    /\ blog' = [blog EXCEPT ![b] = Append(@, <<k, NilBytes, EntryId(b)>>)]
    /\ LogEntry(b, k, NilBytes)
    /\ Goto(th, "BDeleteKs")
    /\ UNCHANGED <<t, sm, ks, vs, ms, ex, iterVars, loc>>

BDeleteKs(th) ==
    /\ pc[th] = "BDeleteKs"
    /\ ks' = [ks EXCEPT ![cur[th].b] = Append(@, cur[th].k)]
    /\ Goto(th, "BDeleteVs")
    /\ UNCHANGED <<t, sm, bm, vs, ms, ex, blog, iterVars, cur, loc, fuel, hist>>

\* A Delete that appends the key and no tombstone.
BDeleteVs_NoTombstone(th) ==
    /\ pc[th] = "BDeleteVs"
    /\ BUnlock(cur[th].b)
    /\ Return(th)
    /\ UNCHANGED <<t, sm, ks, vs, ms, blog, iterVars, fuel, hist>>

BDeleteVs(th) ==
    /\ pc[th] = "BDeleteVs"
    /\ vs' = [vs EXCEPT ![cur[th].b] = Append(@, NilBytes)]
    /\ BUnlock(cur[th].b)
    /\ Return(th)
    /\ UNCHANGED <<t, sm, ks, ms, blog, iterVars, fuel, hist>>

(* Batch.Merge, lines 210-215; the operator travels in the call's v field *)

BMergeLock(th, b, k, op) ==
    /\ Start(th, Call("Batch.Merge", k, op, b))
    /\ BLock(th, b)
    /\ Goto(th, "BMergeAppend")
    /\ UNCHANGED <<t, sm, ks, vs, ms, ex, blog, iterVars, loc, hist>>

\* lines 213-214; an assignment to an entry of a nil map panics
BMergeAppend(th) ==
    /\ pc[th] = "BMergeAppend"
    /\ LET b == cur[th].b
           k == cur[th].k
           old == IF k \in DOMAIN ms[b].m THEN ms[b].m[k] ELSE <<>>
       IN  IF ms[b].isnil
           THEN /\ Goto(th, "panic")
                /\ UNCHANGED <<bm, ms, ex, cur, loc>>
           ELSE /\ ms' = [ms EXCEPT ![b].m =
                             [x \in (DOMAIN @) \cup {k} |->
                                  IF x = k THEN Append(old, cur[th].v) ELSE @[x]]]
                /\ BUnlock(b)
                /\ Return(th)
    /\ UNCHANGED <<t, sm, ks, vs, blog, iterVars, fuel, hist>>

(* Batch.Close, lines 261-268 *)

BCloseLock(th, b) ==
    /\ Start(th, Call("Batch.Close", NoKey, NilBytes, b))
    /\ BLock(th, b)
    /\ Goto(th, "BCloseClear")
    /\ UNCHANGED <<t, sm, ks, vs, ms, ex, blog, iterVars, loc, hist>>

\* A Close that leaves the plain entries in the batch.
BCloseClear_KeepPlain(th) ==
    /\ pc[th] = "BCloseClear"
    /\ ms' = [ms EXCEPT ![cur[th].b] = NilMap]
    /\ blog' = [blog EXCEPT ![cur[th].b] = <<>>]
    /\ BUnlock(cur[th].b)
    /\ Return(th)
    /\ UNCHANGED <<t, sm, ks, vs, iterVars, fuel, hist>>

BCloseClear(th) ==
    /\ pc[th] = "BCloseClear"
    /\ ks' = [ks EXCEPT ![cur[th].b] = <<>>]
    /\ vs' = [vs EXCEPT ![cur[th].b] = <<>>]
    /\ ms' = [ms EXCEPT ![cur[th].b] =
                     [NilMap EXCEPT !.dropped = \/ ms[cur[th].b].dropped
                                               \/ ks[cur[th].b] # <<>>
                                               \/ DOMAIN ms[cur[th].b].m # {}]]
    /\ blog' = [blog EXCEPT ![cur[th].b] = <<>>]
    /\ BUnlock(cur[th].b)
    /\ Return(th)
    /\ UNCHANGED <<t, sm, iterVars, fuel, hist>>

(* Batch.Execute, lines 217-259 *)

\* line 218
ExecBLock(th, b) ==
    /\ Start(th, Call("Batch.Execute", NoKey, NilBytes, b))
    /\ BLock(th, b)
    /\ Goto(th, "ExecDrain")
    /\ UNCHANGED <<t, sm, ks, vs, ms, ex, blog, iterVars, loc, hist>>

\* A drain that keeps the batch's lock while Execute goes on to the store.
ExecDrain_KeepBLock(th) ==
    /\ pc[th] = "ExecDrain"
    /\ LET b == cur[th].b
       IN  /\ ex' = [ex EXCEPT ![th] =
                        [b |-> b, ks |-> ks[b], vs |-> vs[b], ms |-> ms[b].m,
                         rem |-> DOMAIN ms[b].m, key |-> NoKey, i |-> 1,
                         err |-> NoErr, pre |-> EmptyTree, log |-> blog[b],
                         dropped |-> ms[b].dropped]]
           /\ ks' = [ks EXCEPT ![b] = <<>>]
           /\ vs' = [vs EXCEPT ![b] = <<>>]
           /\ ms' = [ms EXCEPT ![b] = EmptyMap]
           /\ blog' = [blog EXCEPT ![b] = <<>>]
    /\ Goto(th, "ExecSLock")
    /\ UNCHANGED <<t, sm, bm, iterVars, cur, loc, fuel, hist>>

\* A drain that copies the buffers and leaves them in the batch.
ExecDrain_NoClear(th) ==
    /\ pc[th] = "ExecDrain"
    /\ LET b == cur[th].b
       IN  /\ ex' = [ex EXCEPT ![th] =
                        [b |-> b, ks |-> ks[b], vs |-> vs[b], ms |-> ms[b].m,
                         rem |-> DOMAIN ms[b].m, key |-> NoKey, i |-> 1,
                         err |-> NoErr, pre |-> EmptyTree, log |-> blog[b],
                         dropped |-> ms[b].dropped]]
           /\ BUnlock(b)
    /\ Goto(th, "ExecSLock")
    /\ UNCHANGED <<t, sm, ks, vs, ms, blog, iterVars, cur, loc, fuel, hist>>

\* lines 219-225: the buffers move to locals, the batch gets fresh ones
ExecDrain(th) ==
    /\ pc[th] = "ExecDrain"
    /\ LET b == cur[th].b
       IN  /\ ex' = [ex EXCEPT ![th] =
                        [b |-> b, ks |-> ks[b], vs |-> vs[b], ms |-> ms[b].m,
                         rem |-> DOMAIN ms[b].m, key |-> NoKey, i |-> 1,
                         err |-> NoErr, pre |-> EmptyTree, log |-> blog[b],
                         dropped |-> ms[b].dropped]]
           /\ ks' = [ks EXCEPT ![b] = <<>>]
           /\ vs' = [vs EXCEPT ![b] = <<>>]
           /\ ms' = [ms EXCEPT ![b] = EmptyMap]
           /\ blog' = [blog EXCEPT ![b] = <<>>]
           /\ BUnlock(b)
    /\ Goto(th, "ExecSLock")
    /\ UNCHANGED <<t, sm, iterVars, cur, loc, fuel, hist>>

\* An Execute that goes on to the map without waiting for the store's lock.
ExecSLock_NoLock(th) ==
    /\ pc[th] = "ExecSLock"
    /\ sm' = th
    /\ ex' = [ex EXCEPT ![th].pre = t]
    /\ Goto(th, "ExecMerge")
    /\ UNCHANGED <<t, bm, ks, vs, ms, blog, iterVars, cur, loc, fuel, hist>>

\* lines 227-230; the history keeps the map as Execute found it
ExecSLock(th) ==
    /\ pc[th] = "ExecSLock"
    /\ Lock(th)
    /\ ex' = [ex EXCEPT ![th].pre = t]
    /\ Goto(th, "ExecMerge")
    /\ UNCHANGED <<t, bm, ks, vs, ms, blog, iterVars, cur, loc, fuel, hist>>

\* The value of the last entry for k among the plain entries (keys, vals),
\* and whether there is one.
PlainKeys(keys) == {keys[i] : i \in 1..Len(keys)}

LastPlain(keys, vals, k) ==
    LET last == CHOOSE i \in 1..Len(keys) :
                    keys[i] = k /\ \A j \in (i + 1)..Len(keys) : keys[j] # k
    IN  vals[last]

\* A merge that is evaluated on top of the batch's own plain entries.
ExecMerge_SeesPlain(th) ==
    /\ pc[th] = "ExecMerge"
    /\ ex[th].rem # {}
    /\ \E key \in ex[th].rem :
          LET got == TreeGet(t, key)
              b == IF key \in PlainKeys(ex[th].ks)
                   THEN LastPlain(ex[th].ks, ex[th].vs, key)
                   ELSE IF got.ok /\ got.v # NilIface THEN got.v ELSE NilBytes
              r == MergeChain(ex[th].ms[key], key, b)
          IN  IF r.err # NoErr
              THEN /\ ex' = [ex EXCEPT ![th].key = key, ![th].err = r.err]
                   /\ Goto(th, "ExecReturn")
                   /\ UNCHANGED <<t, iterVars>>
              ELSE /\ ex' = [ex EXCEPT ![th].key = key, ![th].rem = @ \ {key}]
                   /\ WriteTree(IF r.v # NilBytes THEN TreeSet(t, key, r.v)
                                ELSE TreeDelete(t, key))
                   /\ UNCHANGED pc
    /\ UNCHANGED <<sm, bm, ks, vs, ms, blog, cur, loc, fuel, hist>>

\* A merge failure that is remembered but does not end the Execute.
ExecMerge_KeepGoing(th) ==
    /\ pc[th] = "ExecMerge"
    /\ ex[th].rem # {}
    /\ \E key \in ex[th].rem :
          LET got == TreeGet(t, key)
              b == IF got.ok /\ got.v # NilIface THEN got.v ELSE NilBytes
              r == MergeChain(ex[th].ms[key], key, b)
          IN  IF r.err # NoErr
              THEN /\ ex' = [ex EXCEPT ![th].key = key, ![th].err = r.err,
                                       ![th].rem = @ \ {key}]
                   /\ UNCHANGED <<t, iterVars>>
              ELSE /\ ex' = [ex EXCEPT ![th].key = key, ![th].rem = @ \ {key}]
                   /\ WriteTree(IF r.v # NilBytes THEN TreeSet(t, key, r.v)
                                ELSE TreeDelete(t, key))
    /\ UNCHANGED <<pc, sm, bm, ks, vs, ms, blog, cur, loc, fuel, hist>>

\* A merge whose tombstone result is stored as a value instead of deleting.
ExecMerge_StoreTombstone(th) ==
    /\ pc[th] = "ExecMerge"
    /\ ex[th].rem # {}
    /\ \E key \in ex[th].rem :
          LET got == TreeGet(t, key)
              b == IF got.ok /\ got.v # NilIface THEN got.v ELSE NilBytes
              r == MergeChain(ex[th].ms[key], key, b)
          IN  IF r.err # NoErr
              THEN /\ ex' = [ex EXCEPT ![th].key = key, ![th].err = r.err]
                   /\ Goto(th, "ExecReturn")
                   /\ UNCHANGED <<t, iterVars>>
              ELSE /\ ex' = [ex EXCEPT ![th].key = key, ![th].rem = @ \ {key}]
                   /\ WriteTree(TreeSet(t, key, r.v))
                   /\ UNCHANGED pc
    /\ UNCHANGED <<sm, bm, ks, vs, ms, blog, cur, loc, fuel, hist>>

\* A merge loop that walks the chains in key order.
ExecMerge_InKeyOrder(th) ==
    /\ pc[th] = "ExecMerge"
    /\ ex[th].rem # {}
    /\ \E key \in {CHOOSE k \in ex[th].rem :
                         \A o \in ex[th].rem : itemCompare(k, o) <= 0} :
          LET got == TreeGet(t, key)
              b == IF got.ok /\ got.v # NilIface THEN got.v ELSE NilBytes
              r == MergeChain(ex[th].ms[key], key, b)
          IN  IF r.err # NoErr
              THEN /\ ex' = [ex EXCEPT ![th].key = key, ![th].err = r.err]
                   /\ Goto(th, "ExecReturn")
                   /\ UNCHANGED <<t, iterVars>>
              ELSE /\ ex' = [ex EXCEPT ![th].key = key, ![th].rem = @ \ {key}]
                   /\ WriteTree(IF r.v # NilBytes THEN TreeSet(t, key, r.v)
                                ELSE TreeDelete(t, key))
                   /\ UNCHANGED pc
    /\ UNCHANGED <<sm, bm, ks, vs, ms, blog, cur, loc, fuel, hist>>

\* lines 231-247, one key of the range over ms (Go ranges over a map in no
\* particular order)
ExecMerge(th) ==
    /\ pc[th] = "ExecMerge"
    /\ ex[th].rem # {}
    /\ \E key \in ex[th].rem :
          LET got == TreeGet(t, key)
              b == IF got.ok /\ got.v # NilIface THEN got.v ELSE NilBytes
              r == MergeChain(ex[th].ms[key], key, b)
          IN  IF r.err # NoErr
              THEN /\ ex' = [ex EXCEPT ![th].key = key, ![th].err = r.err]
                   /\ Goto(th, "ExecReturn")
                   /\ UNCHANGED <<t, iterVars>>
              ELSE /\ ex' = [ex EXCEPT ![th].key = key, ![th].rem = @ \ {key}]
                   /\ WriteTree(IF r.v # NilBytes THEN TreeSet(t, key, r.v)
                                ELSE TreeDelete(t, key))
                   /\ UNCHANGED pc
    /\ UNCHANGED <<sm, bm, ks, vs, ms, blog, cur, loc, fuel, hist>>

\* line 247: the range over ms is over
ExecMergeEnd(th) ==
    /\ pc[th] = "ExecMerge"
    /\ ex[th].rem = {}
    /\ Goto(th, "ExecPlain")
    /\ UNCHANGED <<t, sm, batchVars, iterVars, cur, loc, fuel, hist>>

\* Plain entries applied last to first.
ExecPlain_Reverse(th) ==
    /\ pc[th] = "ExecPlain"
    /\ ex[th].i <= Len(ex[th].ks)
    /\ LET i == Len(ex[th].ks) + 1 - ex[th].i
           k == ex[th].ks[i]
       IN  /\ WriteTree(IF ex[th].vs[i] # NilBytes
                        THEN TreeSet(t, k, ex[th].vs[i])
                        ELSE TreeDelete(t, k))
           /\ ex' = [ex EXCEPT ![th].i = @ + 1]
    /\ UNCHANGED <<pc, sm, bm, ks, vs, ms, blog, cur, loc, fuel, hist>>

\* lines 249-256, one entry of ks; vs[i] past the end of vs panics
ExecPlain(th) ==
    /\ pc[th] = "ExecPlain"
    /\ ex[th].i <= Len(ex[th].ks)
    /\ LET i == ex[th].i
           k == ex[th].ks[i]
       IN  IF i > Len(ex[th].vs)
           THEN /\ Goto(th, "panic")
                /\ UNCHANGED <<t, ex, iterVars>>
           ELSE /\ WriteTree(IF ex[th].vs[i] # NilBytes
                             THEN TreeSet(t, k, ex[th].vs[i])
                             ELSE TreeDelete(t, k))
                /\ ex' = [ex EXCEPT ![th].i = i + 1]
                /\ UNCHANGED pc
    /\ UNCHANGED <<sm, bm, ks, vs, ms, blog, cur, loc, fuel, hist>>

\* line 258
ExecPlainEnd(th) ==
    /\ pc[th] = "ExecPlain"
    /\ ex[th].i > Len(ex[th].ks)
    /\ Goto(th, "ExecReturn")
    /\ UNCHANGED <<t, sm, batchVars, iterVars, cur, loc, fuel, hist>>

\* lines 240 and 258 with the deferred Unlock of line 228
ExecReturn(th) ==
    /\ pc[th] = "ExecReturn"
    /\ Unlock(th)
    /\ Return(th)
    /\ UNCHANGED <<t, bufVars, iterVars, fuel, hist>>

----------------------------------------------------------------------------
(* Initial state: StoreConstructor (line 38), no iterator yet, batches as  *)
(* NewBatch (line 111) leaves them.                                        *)

\* Every content the map can have over the keys K with values from V.
Trees(K, V) == UNION {[D -> V] : D \in SUBSET K}

InitWith(n, tree, logged) ==
    /\ t = tree
    /\ sm = 0
    /\ bm = [b \in Batches |-> 0]
    /\ ks = [b \in Batches |-> <<>>]
    /\ vs = [b \in Batches |-> <<>>]
    /\ ms = [b \in Batches |-> EmptyMap]
    /\ ex = [th \in Threads |-> NoExec]
    /\ blog = [b \in Batches |-> <<>>]
    /\ it = NoIter
    /\ pc = [th \in Threads |-> "idle"]
    /\ cur = [th \in Threads |-> NoCall]
    /\ loc = [th \in Threads |-> NoLoc]
    /\ fuel = n
    /\ hist = [th \in logged |-> <<>>]
    /\ obs = NoObs

----------------------------------------------------------------------------
(* Workload 1: threads issuing Store.Get/Set/Delete on overlapping keys,   *)
(* from the empty store.                                                   *)

MaxStoreOps == 3

StoreKeys == {<<1>>, <<2>>}

StoreInit == InitWith(MaxStoreOps, EmptyTree, Threads)

StoreNext ==
    \E th \in Threads :
        \/ \E k \in StoreKeys : GetLock(th, k)
        \/ GetRead(th)
        \/ GetUnlock(th)
        \/ \E k \in StoreKeys, v \in Slices : SetLock(th, k, v)
        \/ SetWrite(th)
        \/ SetUnlock(th)
        \/ \E k \in StoreKeys : DeleteLock(th, k)
        \/ DeleteWrite(th)
        \/ DeleteUnlock(th)

StoreSpec == StoreInit /\ [][StoreNext]_vars

----------------------------------------------------------------------------
(* Workload 2: one caller (thread 1) driving an iterator while another     *)
(* (thread 2) writes to the store.  The store starts with any content that *)
(* earlier Set calls can have left.                                        *)

MaxIterOps == 5

IterOwner == CHOOSE th \in Threads : \A o \in Threads : th <= o
IterWriters == Threads \ {IterOwner}
IterValues == {"a", NilBytes}

IterInit == \E tree \in Trees(Keys, {"a"}) : InitWith(MaxIterOps, tree, {})

IterNext ==
    \/ \E k \in Keys : IteratorLock(IterOwner, k)
    \/ \E k \in Keys : SeekLock(IterOwner, k)
    \/ SeekTree(IterOwner)
    \/ SeekUnlock(IterOwner)
    \/ SeekFirstLock(IterOwner)
    \/ SeekFirstTree(IterOwner)
    \/ SeekFirstUnlock(IterOwner)
    \/ NextCall(IterOwner)
    \/ NextDone(IterOwner)
    \/ NextLock(IterOwner)
    \/ NextTree(IterOwner)
    \/ NextUnlock(IterOwner)
    \/ \E th \in IterWriters :
        \/ \E k \in Keys, v \in IterValues : SetLock(th, k, v)
        \/ SetWrite(th)
        \/ SetUnlock(th)
        \/ \E k \in Keys : DeleteLock(th, k)
        \/ DeleteWrite(th)
        \/ DeleteUnlock(th)

IterSpec == IterInit /\ [][IterNext]_vars

----------------------------------------------------------------------------
(* Workload 3: one caller filling one batch and executing it, on a store   *)
(* with any content that earlier Set calls can have left.                  *)

MaxBatchOps == 4

BatchKeys == {<<1>>, <<2>>}

BatchInit == \E tree \in Trees(BatchKeys, {"a"}) : InitWith(MaxBatchOps, tree, {})

BatchNext ==
    \E th \in {IterOwner}, b \in {1} :
        \/ \E k \in BatchKeys, v \in Values : BSetLock(th, b, k, v)
        \/ BSetKs(th)
        \/ BSetVs(th)
        \/ \E k \in BatchKeys : BDeleteLock(th, b, k)
        \/ BDeleteKs(th)
        \/ BDeleteVs(th)
        \/ \E k \in BatchKeys, op \in MergeOps : BMergeLock(th, b, k, op)
        \/ BMergeAppend(th)
        \/ BCloseLock(th, b)
        \/ BCloseClear(th)
        \/ ExecBLock(th, b)
        \/ ExecDrain(th)
        \/ ExecSLock(th)
        \/ ExecMerge(th)
        \/ ExecMergeEnd(th)
        \/ ExecPlain(th)
        \/ ExecPlainEnd(th)
        \/ ExecReturn(th)

BatchSpec == BatchInit /\ [][BatchNext]_vars

----------------------------------------------------------------------------
(* Workload 5: threads sharing one batch, appending to it and executing it *)
(* concurrently, on one key of an empty store.  The entries appended are   *)
(* recorded.                                                               *)

MaxDrainOps == 4

DrainKeys == {<<1>>}
DrainBatch == CHOOSE b \in Batches : \A o \in Batches : b <= o
DrainMergeOps == {"app", "need"}

DrainInit == InitWith(MaxDrainOps, EmptyTree, {-DrainBatch})

DrainNext ==
    \E th \in Threads, b \in {DrainBatch} :
        \/ \E k \in DrainKeys, v \in Values : BSetLock(th, b, k, v)
        \/ BSetKs(th)
        \/ BSetVs(th)
        \/ \E k \in DrainKeys : BDeleteLock(th, b, k)
        \/ BDeleteKs(th)
        \/ BDeleteVs(th)
        \/ \E k \in DrainKeys, op \in DrainMergeOps : BMergeLock(th, b, k, op)
        \/ BMergeAppend(th)
        \/ ExecBLock(th, b)
        \/ ExecDrain(th)
        \/ ExecSLock(th)
        \/ ExecMerge(th)
        \/ ExecMergeEnd(th)
        \/ ExecPlain(th)
        \/ ExecPlainEnd(th)
        \/ ExecReturn(th)

DrainSpec == DrainInit /\ [][DrainNext]_vars

----------------------------------------------------------------------------
(* Workload 6: threads sharing one batch, with plain entries only: Set,    *)
(* Delete and Execute on one key of an empty store.  The entries appended  *)
(* are recorded.                                                           *)

MaxPlainOps == 4

PlainInit == InitWith(MaxPlainOps, EmptyTree, {-DrainBatch})

PlainNext ==
    \E th \in Threads, b \in {DrainBatch} :
        \/ \E k \in DrainKeys, v \in Values : BSetLock(th, b, k, v)
        \/ BSetKs(th)
        \/ BSetVs(th)
        \/ \E k \in DrainKeys : BDeleteLock(th, b, k)
        \/ BDeleteKs(th)
        \/ BDeleteVs(th)
        \/ ExecBLock(th, b)
        \/ ExecDrain(th)
        \/ ExecSLock(th)
        \/ ExecMergeEnd(th)
        \/ ExecPlain(th)
        \/ ExecPlainEnd(th)
        \/ ExecReturn(th)

PlainSpec == PlainInit /\ [][PlainNext]_vars

----------------------------------------------------------------------------
(* Workload 4: threads sharing the store, two batches and (thread 1) an    *)
(* iterator, each issuing any mix of store, iterator and batch calls, all  *)
(* on one key.                                                             *)

MaxOps == 4

SpecKeys == {<<1>>}
SpecValues == {"a"}
SpecMergeOps == {"app", "need"}

Init == InitWith(MaxOps, EmptyTree, {})

StoreStep(th) ==
    \/ \E k \in SpecKeys : GetLock(th, k)
    \/ GetRead(th)
    \/ GetUnlock(th)
    \/ \E k \in SpecKeys, v \in SpecValues : SetLock(th, k, v)
    \/ SetWrite(th)
    \/ SetUnlock(th)
    \/ \E k \in SpecKeys : DeleteLock(th, k)
    \/ DeleteWrite(th)
    \/ DeleteUnlock(th)

IterStep(th) ==
    \/ \E k \in SpecKeys : IteratorLock(th, k)
    \/ \E k \in SpecKeys : SeekLock(th, k)
    \/ SeekTree(th)
    \/ SeekUnlock(th)
    \/ SeekFirstLock(th)
    \/ SeekFirstTree(th)
    \/ SeekFirstUnlock(th)
    \/ NextCall(th)
    \/ NextDone(th)
    \/ NextLock(th)
    \/ NextTree(th)
    \/ NextUnlock(th)

BatchStep(th) ==
    \/ \E b \in Batches, k \in SpecKeys, v \in SpecValues : BSetLock(th, b, k, v)
    \/ BSetKs(th)
    \/ BSetVs(th)
    \/ \E b \in Batches, k \in SpecKeys : BDeleteLock(th, b, k)
    \/ BDeleteKs(th)
    \/ BDeleteVs(th)
    \/ \E b \in Batches, k \in SpecKeys, op \in SpecMergeOps : BMergeLock(th, b, k, op)
    \/ BMergeAppend(th)
    \/ \E b \in Batches : BCloseLock(th, b)
    \/ BCloseClear(th)
    \/ \E b \in Batches : ExecBLock(th, b)
    \/ ExecDrain(th)
    \/ ExecSLock(th)
    \/ ExecMerge(th)
    \/ ExecMergeEnd(th)
    \/ ExecPlain(th)
    \/ ExecPlainEnd(th)
    \/ ExecReturn(th)

Next ==
    \/ \E th \in Threads : StoreStep(th)
    \/ IterStep(IterOwner)
    \/ \E th \in Threads : BatchStep(th)

Spec == Init /\ [][Next]_vars

----------------------------------------------------------------------------
(* The same callers under a fair scheduler: a goroutine that is inside a   *)
(* call and whose next step is possible (its lock is free, or it needs     *)
(* none) eventually takes it.  A call is started by the caller as it       *)
(* pleases; there is no fairness on starting calls.                        *)

MaxFairOps == 3

FairInit == InitWith(MaxFairOps, EmptyTree, {})

\* A step of th inside a call.
Continue(th) ==
    /\ pc[th] # "idle"
    /\ Next
    /\ <<pc[th], ex[th]>>' # <<pc[th], ex[th]>>

Fairness == \A th \in Threads : WF_vars(Continue(th))

FairSpec == FairInit /\ [][Next]_vars /\ Fairness

----------------------------------------------------------------------------
(* What a reader sees of the map: Get's answer for every key. *)

View(tr) == [k \in Keys |-> StoreGetResult(TreeGet(tr, k))]

EmptyView == [k \in Keys |-> NilBytes]

\* The value of the last write to k in the write sequence h, absent if none.
RECURSIVE LastWrite(_, _)
LastWrite(h, k) ==
    IF h = <<>> THEN NilBytes
    ELSE IF h[Len(h)][1] = k THEN h[Len(h)][2]
    ELSE LastWrite(SubSeq(h, 1, Len(h) - 1), k)

\* th is the only writer: no other thread has written or is in a call.
Alone(th) == \A o \in Threads \ {th} : Idle(o) /\ hist[o] = <<>>

(* C1: for a single writer, after any sequence of Store.Set and            *)
(* Store.Delete calls (Delete of a missing key included), Get(k) returns   *)
(* the value of the last Set on k that no Delete on k followed and absent  *)
(* otherwise, without error; Set and Delete return no error and leave      *)
(* every key with the value of its own last write.                         *)
C1_GetReturnsLastWrite ==
    \A th \in Threads :
        Alone(th) =>
            /\ pc[th] = "GetUnlock" =>
                   /\ StoreGetResult(loc[th]) = LastWrite(hist[th], cur[th].k)
                   /\ loc[th].err = NoErr
            /\ pc[th] \in {"SetUnlock", "DeleteUnlock", "idle"} =>
                   /\ loc[th].err = NoErr
                   /\ \A k \in Keys : View(t)[k] = LastWrite(hist[th], k)

\* A Get about to return a value, after a Set of its key and a later removal
\* of another key, one that was never in the map.
C1_Witness ==
    \E th \in Threads :
        /\ Alone(th)
        /\ pc[th] = "GetUnlock"
        /\ StoreGetResult(loc[th]) \in Values
        /\ Len(hist[th]) = 2
        /\ hist[th][1][1] = cur[th].k
        /\ hist[th][2][1] # cur[th].k
        /\ hist[th][2][2] = NilBytes

\* The views that applying the remaining writes of h, one at a time in an
\* order that keeps each thread's own order, can lead to from the view m.
RECURSIVE Serial(_, _)
Serial(h, m) ==
    LET busy == {th \in DOMAIN h : h[th] # <<>>}
    IN  IF busy = {} THEN {m}
        ELSE UNION {Serial([h EXCEPT ![th] = Tail(@)],
                           [m EXCEPT ![Head(h[th])[1]] = Head(h[th])[2]]) :
                    th \in busy}

(* C2: when all threads' Store.Set and Store.Delete calls have returned,   *)
(* the map read by Get equals the result of applying all those writes one  *)
(* at a time in some total order that respects each thread's own order.    *)
C2_Serializable ==
    (\A th \in Threads : Idle(th)) => View(t) \in Serial(hist, EmptyView)

\* Two threads have written the same key with different values and a third
\* write went to that key as well; all calls have returned.
C2_Witness ==
    /\ \A th \in Threads : Idle(th)
    /\ fuel = 0
    /\ \E a, b \in Threads, k \in Keys :
           /\ a # b
           /\ Len(hist[a]) >= 1 /\ Len(hist[b]) >= 1
           /\ hist[a][1][1] = k /\ hist[b][1][1] = k
           /\ hist[a][1][2] # hist[b][1][2]
           /\ Len(hist[a]) + Len(hist[b]) >= 3

----------------------------------------------------------------------------
(* Iterator claims *)

\* The iterator's owner is between calls and nobody has written to the map
\* since the iterator's last seek began.
Undisturbed == Idle(IterOwner) /\ ~obs.dirty

Reported == {obs.seq[i][1] : i \in 1..Len(obs.seq)}

NoEntry == [k |-> NoKey, v |-> NilBytes, ok |-> FALSE]

(* C7: with no concurrent writer, an iterator positioned by SeekFirst and  *)
(* advanced by Next reports the keys of the map in strictly ascending      *)
(* byte-wise order, each once and with its stored value, skipping none,    *)
(* and is invalid exactly when every key has been reported (at once on an  *)
(* empty map).                                                             *)
C7_SeekFirstVisitsAll ==
    (Undisturbed /\ obs.how = "SeekFirst") =>
        LET n == Len(obs.seq)
        IN  /\ \A i \in 1..n : /\ obs.seq[i][1] \in DOMAIN t
                               /\ obs.seq[i][2] = t[obs.seq[i][1]]
            /\ \A i \in 1..(n - 1) : itemCompare(obs.seq[i][1], obs.seq[i + 1][1]) < 0
            /\ IF Valid(it)
               THEN /\ n > 0
                    /\ <<Key(it), Value(it)>> = obs.seq[n]
                    /\ Reported = {k \in DOMAIN t : itemCompare(k, Key(it)) <= 0}
               ELSE Reported = DOMAIN t

\* A SeekFirst and Nexts that reported three keys and then ran off the end.
C7_Witness ==
    /\ Undisturbed /\ obs.how = "SeekFirst"
    /\ Len(obs.seq) = 3
    /\ ~Valid(it)

(* C8: Store.Iterator(k) and Iterator.Seek(k), from any iterator state     *)
(* (an exhausted one included) and with no write in between, leave the     *)
(* iterator on the smallest key of the map that is >= k (k itself when     *)
(* present) with its value, and invalid when the map has no such key.      *)
C8_SeekPositions ==
    (Undisturbed /\ obs.how = "Seek" /\ ~obs.moved) =>
        LET k == obs.key
            c == {x \in DOMAIN t : itemCompare(x, k) >= 0}
        IN  IF c = {} THEN Current(it) = NoEntry
            ELSE \E x \in c :
                    /\ \A y \in c : itemCompare(x, y) <= 0
                    /\ k \in DOMAIN t => x = k
                    /\ Current(it) = [k |-> x, v |-> t[x], ok |-> TRUE]

\* A Seek on an exhausted iterator that landed on a key greater than the one
\* sought.
C8_Witness ==
    /\ Undisturbed /\ obs.how = "Seek" /\ ~obs.moved
    /\ obs.wasExh
    /\ Valid(it)
    /\ itemCompare(Key(it), obs.key) > 0

(* C9: once a Next has found no further entry, Current, Key, Value and     *)
(* Valid report no current entry until the next Seek or SeekFirst, however *)
(* many Next calls follow and whatever other callers insert meanwhile.     *)
C9_ExhaustedStays ==
    obs.exh =>
        /\ Current(it) = NoEntry
        /\ Key(it) = NoKey /\ Value(it) = NilBytes /\ ~Valid(it)

\* A Next that returned at once on an exhausted iterator although the map
\* by then held a key greater than the last one reported.
C9_Witness ==
    /\ obs.exh /\ obs.late /\ obs.moved
    /\ Idle(IterOwner)

(* C10: a tombstone written by Store.Set is equivalent to Store.Delete:    *)
(* the key is gone for Get and for iterators alike, so an iterator that    *)
(* was positioned with no write since never reports as its current entry   *)
(* a key for which Get returns absent.                                     *)
C10_TombstoneIsDelete ==
    (Undisturbed /\ Valid(it)) => View(t)[Key(it)] # NilBytes

----------------------------------------------------------------------------
(* Batch claims *)

\* th's Execute holds the store: from its Lock (line 227) to the deferred
\* Unlock, the span in which it applies its merges and plain entries.
Applying(th) == pc[th] \in {"ExecMerge", "ExecPlain", "ExecReturn"}

\* The positions from which a thread's next step reads or writes the map:
\* in Get, Set, Delete, the iterator's Seek, SeekFirst and Next, and Execute.
MapSteps == {"GetRead", "SetWrite", "DeleteWrite", "SeekTree", "SeekFirstTree",
             "NextTree", "ExecMerge", "ExecPlain"}

(* C3: what Execute applies to the map is one unit for everybody else:     *)
(* from the moment an Execute may change the map until it has applied all  *)
(* it will apply, no other thread is at a step of Get, Set, Delete, an     *)
(* iterator's Seek, SeekFirst or Next, or another Execute that reads or    *)
(* writes the map, and the store's lock is the Execute's.                  *)
C3_ExecuteIndivisible ==
    \A th \in Threads :
        Applying(th) =>
            /\ sm = th
            /\ \A o \in Threads \ {th} : pc[o] \notin MapSteps

\* An Execute that has changed the map and has a plain entry left to apply
\* while the iterator's owner is inside a Seek, between the Seek's own
\* access to the map and the one of the Next it ends with.
C3_Witness ==
    \E th \in Threads :
        /\ pc[th] = "ExecPlain"
        /\ t # ex[th].pre
        /\ ex[th].i <= Len(ex[th].ks)
        /\ \E o \in Threads \ {th} :
               pc[o] = "Next" /\ cur[o].op \in {"Iterator", "Seek"}

\* th's Execute is about to return.
Executed(th) == pc[th] = "ExecReturn"

\* What Execute's merge of key k makes of the map entry, given the map pre.
Merged(e, k) == MergeChain(e.ms[k], k, View(e.pre)[k])

(* C4: within one Execute every merge chain is evaluated against the value *)
(* its key had before the Execute changed anything, so the Execute fails   *)
(* exactly when some chain fails on that value; and the plain entries are  *)
(* applied after all merges: a key with a merge chain and plain entries    *)
(* ends with the value of its last plain entry.                            *)
C4_MergeBeforePlain ==
    \A th \in Threads :
        Executed(th) =>
            LET e == ex[th]
            IN  /\ e.err = NoErr <=>
                       \A k \in DOMAIN e.ms : Merged(e, k).err = NoErr
                /\ e.err = NoErr =>
                       \A k \in (DOMAIN e.ms) \cap PlainKeys(e.ks) :
                           View(t)[k] = LastPlain(e.ks, e.vs, k)

\* A successful Execute of a batch with a plain Set and a merge chain for
\* the same key whose result differs from the plain value.
C4_Witness ==
    \E th \in Threads :
        /\ Executed(th) /\ ex[th].err = NoErr
        /\ \E k \in (DOMAIN ex[th].ms) \cap PlainKeys(ex[th].ks) :
               /\ Merged(ex[th], k).v # LastPlain(ex[th].ks, ex[th].vs, k)
               /\ LastPlain(ex[th].ks, ex[th].vs, k) # NilBytes
               /\ View(ex[th].pre)[k] # LastPlain(ex[th].ks, ex[th].vs, k)

\* The keys with an entry in the sequence of (key, value) pairs h.
Touched(h) == {h[i][1] : i \in 1..Len(h)}

(* C5: after a successful Execute each key touched by the plain entries    *)
(* that the Set and Delete calls appended holds the value of the last      *)
(* entry appended for it, and is absent if that entry was a Delete.        *)
C5_LastPlainWins ==
    \A th \in Threads :
        (Executed(th) /\ ex[th].err = NoErr) =>
            \A k \in Touched(ex[th].log) : View(t)[k] = LastWrite(ex[th].log, k)

\* An Execute of a batch in which a key was deleted and then set again: the
\* key is in the map afterwards.
C5_Witness ==
    \E th \in Threads :
        /\ Executed(th) /\ ex[th].err = NoErr
        /\ \E i, j \in 1..Len(ex[th].log) :
               /\ i < j
               /\ ex[th].log[i][1] = ex[th].log[j][1]
               /\ ex[th].log[i][2] = NilBytes
               /\ ex[th].log[j][2] \in Values
               /\ View(t)[ex[th].log[j][1]] = ex[th].log[j][2]
               /\ View(ex[th].pre)[ex[th].log[j][1]] # ex[th].log[j][2]

(* C6: an Execute in which a merge chain fails returns that chain's error; *)
(* the keys merged before it keep their merge results, and every other key *)
(* is as it was before the Execute: no later merge and no plain entry of   *)
(* the batch is applied.                                                   *)
C6_MergeFailureAborts ==
    \A th \in Threads :
        (Executed(th) /\ ex[th].err # NoErr) =>
            LET e == ex[th]
                done == (DOMAIN e.ms) \ e.rem
            IN  /\ e.key \in e.rem
                /\ e.err = Merged(e, e.key).err
                /\ \A k \in Keys :
                       TreeGet(t, k) =
                           IF k \in done /\ Merged(e, k).v # NilBytes
                           THEN [v |-> Merged(e, k).v, ok |-> TRUE]
                           ELSE IF k \in done THEN [v |-> NilIface, ok |-> FALSE]
                           ELSE TreeGet(e.pre, k)

\* A failed Execute that had applied another key's merge before the failure
\* and dropped a plain entry that would have changed the map.
C6_Witness ==
    \E th \in Threads :
        /\ Executed(th) /\ ex[th].err # NoErr
        /\ (DOMAIN ex[th].ms) \ ex[th].rem # {}
        /\ t # ex[th].pre
        /\ \E i \in 1..Len(ex[th].ks) : View(t)[ex[th].ks[i]] # ex[th].vs[i]

----------------------------------------------------------------------------
(* Batch claims, continued *)

BufferOps == {"Batch.Set", "Batch.Delete", "Batch.Merge", "Batch.Close"}

(* C11: Batch.Set, Batch.Delete, Batch.Merge and Batch.Close never fail,   *)
(* whatever was called on the batch before (Close and Execute included):   *)
(* no call of one of them ends in a panic.                                 *)
C11_BufferingNeverFails ==
    \A th \in Threads : pc[th] = "panic" => cur[th].op \notin BufferOps

----------------------------------------------------------------------------
(* Locks *)

\* th holds the store's lock, a batch's lock.
HoldsStore(th) == sm = th
HoldsBatch(th) == \E b \in Batches : bm[b] = th

\* The positions at which a thread's next step is a Lock: between calls
\* (every call starts with one), in Execute before line 227, in Next before
\* line 152.
LockSteps == {"idle", "ExecSLock", "Next"}

(* C12: no thread ever holds a batch's lock and the store's lock together, *)
(* and a thread that holds a lock is never at a step that waits for one:   *)
(* whoever waits for a lock waits for a thread that can go on, so no set   *)
(* of threads waits on each other's locks; nor does the holder of the     *)
(* store's lock, the one lock waited for in the middle of a call, crash.   *)
C12_NoLockCycle ==
    \A th \in Threads :
        /\ ~(HoldsStore(th) /\ HoldsBatch(th))
        /\ (HoldsStore(th) \/ HoldsBatch(th)) => pc[th] \notin LockSteps
        /\ HoldsStore(th) => pc[th] # "panic"

\* An Execute that has drained its batch and waits for the store's lock
\* while another Execute of the same batch is applying its entries; the
\* batch's lock is free.
C12_Witness ==
    \E th \in Threads, o \in Threads :
        /\ th # o
        /\ pc[th] = "ExecSLock"
        /\ pc[o] = "ExecPlain" /\ sm = o
        /\ ex[o].b = ex[th].b
        /\ ex[o].ks # <<>>
        /\ bm[ex[th].b] = 0

----------------------------------------------------------------------------
(* Iterator claims, continued *)

----------------------------------------------------------------------------
(* Batch claims: merges *)

\* The map entry that a merge result r leaves for its key.
MergeEntry(r) ==
    IF r.v # NilBytes THEN [v |-> r.v, ok |-> TRUE]
    ELSE [v |-> NilIface, ok |-> FALSE]

(* C14: after a successful Execute a key with a merge chain and no plain   *)
(* entry holds the result of the chain on the value the key had before the *)
(* Execute (absent if it was missing), and is not in the map when that     *)
(* result is a tombstone.                                                  *)
C14_MergeOnlyKey ==
    \A th \in Threads :
        (Executed(th) /\ ex[th].err = NoErr) =>
            \A k \in (DOMAIN ex[th].ms) \ PlainKeys(ex[th].ks) :
                TreeGet(t, k) = MergeEntry(Merged(ex[th], k))

\* A successful Execute with two merge-only keys: one was missing and now
\* holds its chain's result, the other was present and is gone, its chain
\* having produced a tombstone.
C14_Witness ==
    \E th \in Threads :
        /\ Executed(th) /\ ex[th].err = NoErr
        /\ \E k1, k2 \in (DOMAIN ex[th].ms) \ PlainKeys(ex[th].ks) :
               /\ k1 \notin DOMAIN ex[th].pre
               /\ k1 \in DOMAIN t /\ t[k1] \in Values
               /\ k2 \in DOMAIN ex[th].pre
               /\ k2 \notin DOMAIN t

----------------------------------------------------------------------------
(* Batch claims: what reaches the store *)

(* C15: buffered changes reach the store only through Execute.  No call of *)
(* Batch.Set, Delete, Merge or Close ever holds the store's lock, and the  *)
(* map changes only in a step of Execute's two loops; an Execute changes   *)
(* no key other than those of the entries and chains appended since the    *)
(* batch was last closed or executed, so what a Close threw away never     *)
(* reaches the map and an Execute right after a Close changes nothing.     *)
C15_OnlyExecuteCommits ==
    /\ [](\A th \in Threads :
            /\ cur[th].op \in BufferOps => ~HoldsStore(th)
            /\ Executed(th) =>
                   \A k \in Keys \ (Touched(ex[th].log) \cup DOMAIN ex[th].ms) :
                       TreeGet(t, k) = TreeGet(ex[th].pre, k))
    /\ [][t' # t => \E th \in Threads : /\ cur[th].op = "Batch.Execute"
                                        /\ pc[th] \in {"ExecMerge", "ExecPlain"}]_vars

\* An Execute about to return that followed a Close which threw buffered
\* entries away, with nothing appended since: the map is as Execute found it.
C15_Witness ==
    \E th \in Threads :
        /\ Executed(th)
        /\ ex[th].dropped
        /\ ex[th].log = <<>> /\ ex[th].ks = <<>> /\ DOMAIN ex[th].ms = {}
        /\ t = ex[th].pre

----------------------------------------------------------------------------
(* Draining: which Execute gets which buffered entry.                      *)

\* The threads whose Execute has drained batch b and has not yet returned.
Drained(b) ==
    {th \in Threads : /\ cur[th].op = "Batch.Execute"
                      /\ cur[th].b = b
                      /\ pc[th] \in {"ExecSLock", "ExecMerge", "ExecPlain",
                                     "ExecReturn"}}

Ids(h) == {h[i][3] : i \in 1..Len(h)}

Pairs(h) == [i \in 1..Len(h) |-> <<h[i][1], h[i][2]>>]

Zip(keys, vals) == [i \in 1..Len(keys) |-> <<keys[i], vals[i]>>]

(* C16: every buffered entry is drained by exactly one Execute and applied *)
(* at most once, also when Executes, Set, Delete and Merge run concurrently*)
(* on one batch: the entries still buffered and the entries held by the    *)
(* Executes in flight are pairwise distinct, and together they are entries *)
(* appended to the batch; what an Execute holds is what callers appended,  *)
(* pair by pair; an Execute that fails leaves none of its entries in the   *)
(* batch; an Execute that drained nothing leaves the map as it found it;   *)
(* the drain step takes everything buffered and leaves the batch empty;    *)
(* and an Execute walks its plain entries forward only.                    *)
C16_DrainedOnce ==
    /\ [](\A b \in Batches :
            /\ \A th \in Drained(b) :
                  /\ Ids(ex[th].log) \cap Ids(blog[b]) = {}
                  /\ \A o \in Drained(b) \ {th} :
                        Ids(ex[th].log) \cap Ids(ex[o].log) = {}
                  /\ Len(ex[th].ks) = Len(ex[th].vs)
                  /\ Zip(ex[th].ks, ex[th].vs) = Pairs(ex[th].log)
                  /\ -b \in DOMAIN hist =>
                        \A i \in 1..Len(ex[th].log) :
                            LET e == ex[th].log[i]
                            IN  /\ e[3] \in 1..Len(hist[-b])
                                /\ hist[-b][e[3]] = <<e[1], e[2]>>
                  /\ (Executed(th) /\ ex[th].log = <<>> /\ DOMAIN ex[th].ms = {})
                        => t = ex[th].pre
            /\ Cardinality(Ids(blog[b])) = Len(blog[b]))
    /\ [][\A th \in Threads :
            /\ (pc[th] = "ExecDrain" /\ pc'[th] # "ExecDrain") =>
                  LET b == cur[th].b
                  IN  /\ ex'[th].log = blog[b]
                      /\ ex'[th].ks = ks[b]
                      /\ ex'[th].vs = vs[b]
                      /\ ex'[th].ms = ms[b].m
                      /\ ks'[b] = <<>> /\ vs'[b] = <<>> /\ blog'[b] = <<>>
                      /\ DOMAIN ms'[b].m = {}
            /\ (pc[th] = "ExecPlain" /\ ex'[th] # ex[th]) =>
                  /\ ex'[th].i = ex[th].i + 1
                  /\ ex'[th].ks = ex[th].ks /\ ex'[th].vs = ex[th].vs
            /\ (pc[th] = "ExecMerge" /\ ex'[th].rem # ex[th].rem) =>
                  /\ ex'[th].rem = ex[th].rem \ {ex'[th].key}
                  /\ ex'[th].key \in ex[th].rem]_vars

\* Two Executes of one batch in flight, each holding entries of its own: one
\* applying its plain entries, the other waiting for the store's lock.
C16_Witness ==
    \E th \in Threads, o \in Threads :
        /\ th # o
        /\ {th, o} \subseteq Drained(DrainBatch)
        /\ ex[th].log # <<>> /\ ex[o].log # <<>>
        /\ Ids(ex[th].log) # Ids(ex[o].log)
        /\ pc[o] = "ExecSLock"
        /\ pc[th] = "ExecPlain"

----------------------------------------------------------------------------
(* Termination and the release of the locks.                               *)

\* No call is in progress: every goroutine is between calls, or its call has
\* ended in a panic.
Quiet == \A th \in Threads : pc[th] \in {"idle", "panic"}

LocksFree == sm = 0 /\ \A b \in Batches : bm[b] = 0

(* C17: under fair scheduling every started operation eventually returns,  *)
(* and whenever no operation is in progress the store's lock and every     *)
(* batch's lock are free.                                                  *)
C17_ReturnsAndReleases ==
    /\ [](Quiet => LocksFree)
    /\ \A th \in Threads : (pc[th] # "idle") ~> (pc[th] = "idle")

----------------------------------------------------------------------------
(* Plain entries of one batch drained by several Executes.                 *)

\* Every entry appended to batch b has been drained and every call has
\* returned.
Settled(b) ==
    /\ \A th \in Threads : Idle(th)
    /\ blog[b] = <<>>
    /\ bm[b] = 0

(* C18: once every entry appended to a batch has been drained and all the  *)
(* Executes have returned, each key that has plain entries holds the value *)
(* of the last entry appended for it, whichever Execute drained it; the    *)
(* batch's calls are the only writers.                                     *)
C18_AppendOrderAcrossExecutes ==
    Settled(DrainBatch) =>
        \A k \in Touched(hist[-DrainBatch]) :
            View(t)[k] = LastWrite(hist[-DrainBatch], k)

----------------------------------------------------------------------------
(* The key buffer and the value buffer of a batch.                         *)

(* C19: whenever a batch's lock is free its ks and vs have the same length *)
(* and hold, position by position, the keys and the values (or tombstones) *)
(* that were appended together; every Execute holds whole pairs after its  *)
(* drain, and no Execute reads past the end of its vs.                     *)
C19_BuffersPairUp ==
    /\ \A b \in Batches :
          /\ bm[b] = 0 =>
                /\ Len(ks[b]) = Len(vs[b])
                /\ Zip(ks[b], vs[b]) = Pairs(blog[b])
          /\ \A th \in Drained(b) :
                /\ Len(ex[th].ks) = Len(ex[th].vs)
                /\ Zip(ex[th].ks, ex[th].vs) = Pairs(ex[th].log)
    /\ \A th \in Threads : pc[th] = "panic" => cur[th].op # "Batch.Execute"

\* An Execute holds a Set's pair and a Delete's pair while another caller of
\* the same batch is between its two appends.
C19_Witness ==
    \E th \in Threads, o \in Threads, b \in Batches :
        /\ th \in Drained(b)
        /\ pc[th] = "ExecPlain"
        /\ Len(ex[th].ks) = 2
        /\ ex[th].vs[1] # ex[th].vs[2]
        /\ pc[o] \in {"BSetVs", "BDeleteVs"}
        /\ cur[o].b = b
        /\ Len(ks[b]) = Len(vs[b]) + 1

----------------------------------------------------------------------------
(* The order of the merge loop.                                            *)

\* The step of Execute's merge loop that processes key.
TakesKey(th, key) == ExecMerge(th) /\ ex'[th].key = key

\* The keys whose merge this Execute has carried out.
Committed(e) == (DOMAIN e.ms) \ e.rem

\* The map that the merges of the keys in done make of the map pre.
MergesApplied(e, done, k) ==
    IF k \in done THEN MergeEntry(Merged(e, k)) ELSE TreeGet(e.pre, k)

(* C20: Execute may process the keys that have merge chains in any order:  *)
(* at every point of the merge loop each remaining key can be the next.    *)
(* When all chains have succeeded the map is the one that the chains make  *)
(* of the map Execute found, each on its own key, whatever the order was.  *)
(* When a chain fails, the map holds the merges of the keys processed      *)
(* before it, which are chains that succeed, and nothing of the others.    *)
C20_MergeOrderFree ==
    \A th \in Threads :
        /\ pc[th] = "ExecMerge" =>
              \A key \in ex[th].rem : ENABLED TakesKey(th, key)
        /\ (pc[th] = "ExecPlain" /\ ex[th].i = 1) =>
              /\ ex[th].rem = {}
              /\ \A k \in Keys :
                    TreeGet(t, k) = MergesApplied(ex[th], DOMAIN ex[th].ms, k)
        /\ (Executed(th) /\ ex[th].err # NoErr) =>
              /\ ex[th].key \in ex[th].rem
              /\ Merged(ex[th], ex[th].key).err = ex[th].err
              /\ \A k \in Committed(ex[th]) : Merged(ex[th], k).err = NoErr
              /\ \A k \in Keys :
                    TreeGet(t, k) = MergesApplied(ex[th], Committed(ex[th]), k)

\* A failed Execute of two chains that has left the other key's merge in the
\* map: the chain that fails was processed second.
C20_Witness ==
    \E th \in Threads :
        /\ Executed(th)
        /\ ex[th].err # NoErr
        /\ Cardinality(DOMAIN ex[th].ms) = 2
        /\ \E k \in Committed(ex[th]) : TreeGet(t, k) # TreeGet(ex[th].pre, k)

====
